---------------------------- MODULE Spec2Model ----------------------------
(***************************************************************************)
(* Model of the team-formation core of guccicci (src/src/domain.rs,        *)
(* src/src/strategy.rs): TeamsCreationSetting's projections and validate,  *)
(* Team::create_by_leader_candidates and Teams::create, run step by step.  *)
(*                                                                         *)
(* A Person is identified by its position in setting.attendees (names are  *)
(* opaque and need not be unique); pools and teams hold these positions.   *)
(***************************************************************************)
EXTENDS Integers, Sequences, FiniteSets

VARIABLES
    setting,            \* the TeamsCreationSetting handed to Teams::create
    shuffle_strategy,   \* the VecShuffleStrategy handed to Teams::create
    pc,                 \* position inside Teams::create
    leader_candidates,  \* local Vec<Person> of create / create_by_leader_candidates
    teams_vec,          \* local Vec<Team> (res of create_by_leader_candidates)
    rest,               \* local Vec<Person>: leftover leaders ++ normal attendees
    team_idx,           \* position of `for team in &mut teams_vec` (1-based)
    shuffle_calls,      \* number of shuffle_strategy.shuffle calls made so far
    ret                 \* what create returned (kind "Pending" while running)

vars == <<setting, shuffle_strategy, pc, leader_candidates, teams_vec, rest,
          team_idx, shuffle_calls, ret>>

----------------------------------------------------------------------------
(* Bounds of the model *)

\* longest attendee list whose every shuffle permutation is enumerated
MaxAttendees == 4
\* largest small num_of_teams tried (U8Max is tried as well)
MaxTeams == 3
\* the wide attendee lists have U8Max + 1 .. U8Max + MaxOver entries
MaxOver == 1

\* u8::MAX, the width of num_of_teams and of LeadersLack's fields
U8Max == 255

----------------------------------------------------------------------------
(* Values *)

\* Option<bool>
OptionBool == {"None", "SomeTrue", "SomeFalse"}

\* Option<bool>::unwrap_or
unwrap_or(opt, default) == IF opt = "None" THEN default ELSE opt = "SomeTrue"

\* Attendee { person, leader }: the person is the attendee's position
Attendee(i, flag) == [person |-> i, leader |-> flag]

\* faulty variant: an unset flag counts as leader
is_leader_unset_true(a) == unwrap_or(a.leader, TRUE)

\* Attendee::is_leader
is_leader(a) == unwrap_or(a.leader, FALSE)

\* TeamsCreationSetting::is_flat
is_flat(s) == unwrap_or(s.flat, FALSE)

\* iter().map(|a| &a.person).collect()
PersonsOf(as) == [i \in 1..Len(as) |-> as[i].person]

\* TeamsCreationSetting::all_people
all_people(s) == PersonsOf(s.attendees)

\* faulty variant: the flat test is inverted
leader_candidates_flat_inverted(s) ==
    IF ~is_flat(s)
    THEN all_people(s)
    ELSE PersonsOf(SelectSeq(s.attendees, LAMBDA a : is_leader(a)))

\* TeamsCreationSetting::leader_candidates
leader_candidates_of(s) ==
    IF is_flat(s)
    THEN all_people(s)
    ELSE PersonsOf(SelectSeq(s.attendees, LAMBDA a : is_leader(a)))

\* faulty variant: flat is ignored
normal_attendees_ignoring_flat(s) ==
    PersonsOf(SelectSeq(s.attendees, LAMBDA a : ~is_leader(a)))

\* TeamsCreationSetting::normal_attendees
normal_attendees_of(s) ==
    IF is_flat(s)
    THEN << >>
    ELSE PersonsOf(SelectSeq(s.attendees, LAMBDA a : ~is_leader(a)))

\* u8::try_from(usize): fails above u8::MAX
u8_try_from(n) == IF n <= U8Max THEN [ok |-> TRUE, v |-> n] ELSE [ok |-> FALSE, v |-> 0]

\* results of validate / create
Pending == [kind |-> "Pending", available |-> 0, required |-> 0]
OkResult == [kind |-> "Ok", available |-> 0, required |-> 0]
NumOfTeamsZero == [kind |-> "NumOfTeamsZero", available |-> 0, required |-> 0]
LeadersLack(a, r) == [kind |-> "LeadersLack", available |-> a, required |-> r]
ShuffleError == [kind |-> "ShuffleError", available |-> 0, required |-> 0]
\* a failed unwrap()
Panic == [kind |-> "Panic", available |-> 0, required |-> 0]

\* faulty variant: `<=` for `<` in the leader-count check
validate_le(s) ==
    LET num_of_leader_candidates == Len(leader_candidates_of(s)) IN
    IF s.num_of_teams = 0
    THEN NumOfTeamsZero
    ELSE IF num_of_leader_candidates <= s.num_of_teams
         THEN LET a == u8_try_from(num_of_leader_candidates) IN
              IF a.ok THEN LeadersLack(a.v, s.num_of_teams) ELSE Panic
         ELSE OkResult

\* faulty variant: the zero check is missing
validate_no_zero_check(s) ==
    LET num_of_leader_candidates == Len(leader_candidates_of(s)) IN
    IF num_of_leader_candidates < s.num_of_teams
    THEN LET a == u8_try_from(num_of_leader_candidates) IN
         IF a.ok THEN LeadersLack(a.v, s.num_of_teams) ELSE Panic
    ELSE OkResult

\* faulty variant: the count is converted to u8 before the checks
validate_eager_try_from(s) ==
    LET num_of_leader_candidates == Len(leader_candidates_of(s))
        a == u8_try_from(num_of_leader_candidates)
    IN
    IF ~a.ok THEN Panic
    ELSE IF s.num_of_teams = 0
    THEN NumOfTeamsZero
    ELSE IF num_of_leader_candidates < s.num_of_teams
         THEN LeadersLack(a.v, s.num_of_teams)
         ELSE OkResult

\* TeamsCreationSetting::validate
validate(s) ==
    LET num_of_leader_candidates == Len(leader_candidates_of(s)) IN
    IF s.num_of_teams = 0
    THEN NumOfTeamsZero
    ELSE IF num_of_leader_candidates < s.num_of_teams
         THEN LET a == u8_try_from(num_of_leader_candidates) IN
              IF a.ok THEN LeadersLack(a.v, s.num_of_teams) ELSE Panic
         ELSE OkResult

\* Team::new
Team_new(leader) == [leader |-> leader, member |-> << >>]

\* faulty variant: `<=` for `<` in the loop condition
needs_more_teams_le(res, num_of_teams) == Len(res) <= num_of_teams

\* line 47: the condition of `while res.len() < num_of_teams.into()`
needs_more_teams(res, num_of_teams) == Len(res) < num_of_teams

\* Team::assign
assign(team, new_member) == [team EXCEPT !.member = Append(@, new_member)]

\* all orders of the positions in S
RECURSIVE Orders(_)
Orders(S) ==
    IF S = {} THEN { << >> }
    ELSE UNION { { <<i>> \o o : o \in Orders(S \ {i}) } : i \in S }

\* all orders of the elements of vec
Perms(vec) == { [i \in 1..Len(vec) |-> vec[o[i]]] : o \in Orders(1..Len(vec)) }

\* ShuffleStrategies::shuffle: the outcomes of a call.  Both variants return
\* Ok(()); NoShuffle leaves the vec alone, RandomShuffle leaves it in any order.
shuffle(strategy, vec) ==
    CASE strategy = "NoShuffle" -> { [ok |-> TRUE, vec |-> vec] }
      [] strategy = "RandomShuffle" -> { [ok |-> TRUE, vec |-> v] : v \in Perms(vec) }

----------------------------------------------------------------------------
(* Inputs *)

SmallAttendees ==
    UNION { { [i \in 1..n |-> Attendee(i, f[i])] : f \in [1..n -> OptionBool] } :
            n \in 0..MaxAttendees }

\* the config of tests::create_teams_by_setting: A, B, E leaders; C, D not
FixtureAttendees ==
    [i \in 1..5 |-> Attendee(i, IF i \in {1, 2, 5} THEN "SomeTrue" ELSE "SomeFalse")]

\* lists longer than u8::MAX: all leaders, no leaders (flag unset), and
\* one with U8Max - 1 leaders followed by non-leaders
WideAttendees ==
    UNION { { [i \in 1..(U8Max + o) |-> Attendee(i, "SomeTrue")],
              [i \in 1..(U8Max + o) |-> Attendee(i, "None")],
              [i \in 1..(U8Max + o) |->
                   Attendee(i, IF i < U8Max THEN "SomeTrue" ELSE "SomeFalse")] } :
            o \in 1..MaxOver }

TeamCounts == (0..MaxTeams) \cup {U8Max}

\* the variants of ShuffleStrategies
Strategies == {"NoShuffle", "RandomShuffle"}

Init ==
    /\ \E as \in SmallAttendees \cup {FixtureAttendees} \cup WideAttendees,
          k \in TeamCounts, f \in OptionBool :
          setting = [attendees |-> as, num_of_teams |-> k, flat |-> f]
    /\ shuffle_strategy \in Strategies
    \* the permutations of a wide list are not enumerated
    /\ Len(setting.attendees) > U8Max => shuffle_strategy = "NoShuffle"
    /\ pc = "validate"
    /\ leader_candidates = << >>
    /\ teams_vec = << >>
    /\ rest = << >>
    /\ team_idx = 0
    /\ shuffle_calls = 0
    /\ ret = Pending

----------------------------------------------------------------------------
(* Teams::create, step by step *)

\* faulty variant: validate's result is dropped (the `?` is missing)
Validate_result_ignored ==
    /\ pc = "validate"
    /\ pc' = "shuffle_leaders"
    /\ UNCHANGED <<setting, shuffle_strategy, leader_candidates, teams_vec, rest,
                   team_idx, shuffle_calls, ret>>

\* line 88: setting.validate()?
Validate ==
    /\ pc = "validate"
    /\ LET r == validate(setting) IN
       IF r.kind = "Ok"
       THEN /\ pc' = "shuffle_leaders"
            /\ ret' = ret
       ELSE /\ pc' = IF r.kind = "Panic" THEN "panic" ELSE "err"
            /\ ret' = r
    /\ UNCHANGED <<setting, shuffle_strategy, leader_candidates, teams_vec, rest,
                   team_idx, shuffle_calls>>

\* lines 90-91: collect the leader candidates and shuffle them
ShuffleLeaders ==
    /\ pc = "shuffle_leaders"
    /\ \E out \in shuffle(shuffle_strategy, leader_candidates_of(setting)) :
          /\ leader_candidates' = out.vec
          /\ IF out.ok
             THEN pc' = "create_by_leader_candidates" /\ ret' = ret
             ELSE pc' = "err" /\ ret' = ShuffleError
    /\ shuffle_calls' = shuffle_calls + 1
    /\ UNCHANGED <<setting, shuffle_strategy, teams_vec, rest, team_idx>>

\* lines 47-50: one iteration of `while res.len() < num_of_teams.into()`
PopLeader ==
    /\ pc = "create_by_leader_candidates"
    /\ needs_more_teams(teams_vec, setting.num_of_teams)
    /\ IF leader_candidates = << >>
       THEN /\ pc' = "panic"
            /\ ret' = Panic
            /\ UNCHANGED <<leader_candidates, teams_vec>>
       ELSE /\ teams_vec' = Append(teams_vec,
                                   Team_new(leader_candidates[Len(leader_candidates)]))
            /\ leader_candidates' = SubSeq(leader_candidates, 1, Len(leader_candidates) - 1)
            /\ UNCHANGED <<pc, ret>>
    /\ UNCHANGED <<setting, shuffle_strategy, rest, team_idx, shuffle_calls>>

\* faulty variant: the leftover leader candidates are forgotten
AppendNormal_drop_leftover ==
    /\ pc = "create_by_leader_candidates"
    /\ ~needs_more_teams(teams_vec, setting.num_of_teams)
    /\ rest' = normal_attendees_of(setting)
    /\ leader_candidates' = << >>
    /\ pc' = "shuffle_rest"
    /\ UNCHANGED <<setting, shuffle_strategy, teams_vec, team_idx, shuffle_calls, ret>>

\* lines 52, 93-95: the loop is over; rest = leftover leaders ++ normal attendees
AppendNormal ==
    /\ pc = "create_by_leader_candidates"
    /\ ~needs_more_teams(teams_vec, setting.num_of_teams)
    /\ rest' = leader_candidates \o normal_attendees_of(setting)
    /\ leader_candidates' = << >>
    /\ pc' = "shuffle_rest"
    /\ UNCHANGED <<setting, shuffle_strategy, teams_vec, team_idx, shuffle_calls, ret>>

\* line 97: shuffle_strategy.shuffle(&mut rest)?
ShuffleRest ==
    /\ pc = "shuffle_rest"
    /\ \E out \in shuffle(shuffle_strategy, rest) :
          /\ rest' = out.vec
          /\ IF out.ok
             THEN pc' = "while" /\ ret' = ret
             ELSE pc' = "err" /\ ret' = ShuffleError
    /\ shuffle_calls' = shuffle_calls + 1
    /\ UNCHANGED <<setting, shuffle_strategy, leader_candidates, teams_vec, team_idx>>

\* lines 99, 109: `while !rest.is_empty()`; when it fails, Ok(Teams {team: teams_vec})
WhileCheck ==
    /\ pc = "while"
    /\ IF rest = << >>
       THEN pc' = "done" /\ ret' = OkResult /\ team_idx' = team_idx
       ELSE pc' = "for" /\ ret' = ret /\ team_idx' = 1
    /\ UNCHANGED <<setting, shuffle_strategy, leader_candidates, teams_vec, rest,
                   shuffle_calls>>

\* faulty variant: the teams are visited from the last to the first
ForStep_reversed ==
    /\ pc = "for"
    /\ IF team_idx > Len(teams_vec)
       THEN /\ pc' = "while"
            /\ UNCHANGED <<teams_vec, rest, team_idx>>
       ELSE IF rest = << >>
       THEN /\ pc' = "while"
            /\ UNCHANGED <<teams_vec, rest, team_idx>>
       ELSE /\ teams_vec' = [teams_vec EXCEPT
                                ![Len(teams_vec) + 1 - team_idx] = assign(@, rest[Len(rest)])]
            /\ rest' = SubSeq(rest, 1, Len(rest) - 1)
            /\ team_idx' = team_idx + 1
            /\ pc' = pc
    /\ UNCHANGED <<setting, shuffle_strategy, leader_candidates, shuffle_calls, ret>>

\* faulty variant: the loop never moves on to the next team
ForStep_same_team ==
    /\ pc = "for"
    /\ IF team_idx > Len(teams_vec)
       THEN /\ pc' = "while"
            /\ UNCHANGED <<teams_vec, rest, team_idx>>
       ELSE IF rest = << >>
       THEN /\ pc' = "while"
            /\ UNCHANGED <<teams_vec, rest, team_idx>>
       ELSE /\ teams_vec' = [teams_vec EXCEPT
                                ![team_idx] = assign(@, rest[Len(rest)])]
            /\ rest' = SubSeq(rest, 1, Len(rest) - 1)
            /\ team_idx' = team_idx
            /\ pc' = pc
    /\ UNCHANGED <<setting, shuffle_strategy, leader_candidates, shuffle_calls, ret>>

\* lines 100-106: one step of `for team in &mut teams_vec`
ForStep ==
    /\ pc = "for"
    /\ IF team_idx > Len(teams_vec)
       THEN \* the iterator is exhausted
            /\ pc' = "while"
            /\ UNCHANGED <<teams_vec, rest, team_idx>>
       ELSE IF rest = << >>
       THEN \* rest.pop() is None: break
            /\ pc' = "while"
            /\ UNCHANGED <<teams_vec, rest, team_idx>>
       ELSE /\ teams_vec' = [teams_vec EXCEPT
                                ![team_idx] = assign(@, rest[Len(rest)])]
            /\ rest' = SubSeq(rest, 1, Len(rest) - 1)
            /\ team_idx' = team_idx + 1
            /\ pc' = pc
    /\ UNCHANGED <<setting, shuffle_strategy, leader_candidates, shuffle_calls, ret>>

Next ==
    \/ Validate
    \/ ShuffleLeaders
    \/ PopLeader
    \/ AppendNormal
    \/ ShuffleRest
    \/ WhileCheck
    \/ ForStep

Spec == Init /\ [][Next]_vars

\* create is one synchronous call: a step that can be taken is taken
FairSpec == Spec /\ WF_vars(Next)

----------------------------------------------------------------------------
(* Vocabulary of the properties, stated on the input without the model's     *)
(* projections                                                               *)

NumAttendees == Len(setting.attendees)
NumTeams == setting.num_of_teams

\* attendee i counts as a leader candidate: flat is true, or its flag is Some(true)
IsCandidate(i) == setting.flat = "SomeTrue" \/ setting.attendees[i].leader = "SomeTrue"

CandidateCount == Cardinality({ i \in 1..NumAttendees : IsCandidate(i) })

ConfigValid == NumTeams > 0 /\ CandidateCount >= NumTeams

\* create returned Ok(Teams {team: teams_vec})
Returned == pc = "done" /\ ret.kind = "Ok"

\* the places of a Teams: <<t, 0>> is team t's leader, <<t, j>> its j-th member
Slots ==
    UNION { {<<t, 0>>} \cup { <<t, j>> : j \in 1..Len(teams_vec[t].member) } :
            t \in 1..Len(teams_vec) }

PersonAt(slot) ==
    IF slot[2] = 0 THEN teams_vec[slot[1]].leader
    ELSE teams_vec[slot[1]].member[slot[2]]

MemberCount(t) == Len(teams_vec[t].member)

\* s holds strictly increasing positions: an input-order subsequence
InInputOrder(s) == \A i \in 1..(Len(s) - 1) : s[i] < s[i + 1]

Range(s) == { s[i] : i \in 1..Len(s) }

----------------------------------------------------------------------------
(* C1: every Teams that create returns holds every input attendee exactly   *)
(* once over all leaders and member lists together, and nobody else, for    *)
(* every shuffle outcome.                                                   *)
C1_EveryAttendeeExactlyOnce ==
    Returned =>
        LET slots == Slots IN
        /\ \A sl \in slots : PersonAt(sl) \in 1..NumAttendees
        /\ \A i \in 1..NumAttendees :
              Cardinality({ sl \in slots : PersonAt(sl) = i }) = 1

\* a returned Teams built from leftover leaders and normal attendees under a
\* permuting shuffle
C1_Witness ==
    /\ Returned
    /\ shuffle_strategy = "RandomShuffle"
    /\ CandidateCount > NumTeams
    /\ CandidateCount < NumAttendees
    /\ NumTeams >= 2

(* C2: when validate() succeeds, the returned Teams has exactly              *)
(* num_of_teams teams, also when there are more leader candidates than      *)
(* teams; and create returns a Teams only when validate() succeeded.        *)
C2_TeamCount ==
    /\ Returned => ConfigValid /\ Len(teams_vec) = NumTeams
    /\ pc \in {"shuffle_rest", "while", "for"} => Len(teams_vec) = NumTeams

\* returned with more candidates than teams
C2_Witness == Returned /\ CandidateCount > NumTeams + 1 /\ NumTeams >= 2

(* C3: every team leader is a leader candidate: unless flat is true, an     *)
(* attendee whose leader flag is false or unset never leads a team.         *)
C3_LeadersAreCandidates ==
    \A t \in 1..Len(teams_vec) :
        /\ teams_vec[t].leader \in 1..NumAttendees
        /\ IsCandidate(teams_vec[t].leader)

\* not flat, attendees with unset and with false flags present, shuffled
C3_Witness ==
    /\ Returned
    /\ setting.flat # "SomeTrue"
    /\ shuffle_strategy = "RandomShuffle"
    /\ \E i, j \in 1..NumAttendees :
          setting.attendees[i].leader = "None" /\ setting.attendees[j].leader = "SomeFalse"
    /\ CandidateCount > NumTeams

(* C4: in a returned Teams the member counts of any two teams differ by at  *)
(* most one, and are all equal when (attendees - num_of_teams) is a multiple*)
(* of num_of_teams.                                                         *)
C4_Balanced ==
    Returned =>
        /\ \A t, u \in 1..Len(teams_vec) : MemberCount(t) - MemberCount(u) <= 1
        /\ (NumAttendees - NumTeams) % NumTeams = 0 =>
              \A t, u \in 1..Len(teams_vec) : MemberCount(t) = MemberCount(u)

\* an uneven distribution over at least two teams
C4_Witness ==
    /\ Returned
    /\ NumTeams >= 2
    /\ (NumAttendees - NumTeams) % NumTeams # 0
    /\ NumAttendees - NumTeams > NumTeams

(* C5: validate() returns NumOfTeamsZero iff num_of_teams is 0, returns     *)
(* LeadersLack(available, required) iff the candidate count after flat is   *)
(* below num_of_teams, with available that count and required num_of_teams, *)
(* and returns Ok in every other case; create acts on exactly that result.  *)
C5_Validate ==
    LET r == validate(setting) IN
    /\ r.kind = "NumOfTeamsZero" <=> NumTeams = 0
    /\ r.kind = "LeadersLack" <=> CandidateCount < NumTeams
    /\ r.kind = "LeadersLack" => r.available = CandidateCount /\ r.required = NumTeams
    /\ r.kind \notin {"NumOfTeamsZero", "LeadersLack"} => r.kind = "Ok"
    /\ pc # "validate" =>
          IF NumTeams = 0 THEN pc = "err" /\ ret = NumOfTeamsZero
          ELSE IF CandidateCount < NumTeams
               THEN pc = "err" /\ ret = LeadersLack(CandidateCount, NumTeams)
               ELSE ret.kind \notin {"NumOfTeamsZero", "LeadersLack"}

\* validate has returned LeadersLack on a config with candidates, under flat
\* unset
C5_Witness ==
    /\ pc = "err"
    /\ ret.kind = "LeadersLack"
    /\ ret.available >= 1
    /\ setting.flat = "None"
    /\ NumAttendees > ret.required
(* C6: create has no partial-success outcome: it returns a complete Teams,  *)
(* or it returns an error before any Team has been constructed.  When       *)
(* validate() fails, no shuffle call and no Team construction happens and   *)
(* the validation error is what the caller receives; no error return, one   *)
(* from either shuffle call included, happens after a Team was constructed. *)
C6_NoPartialSuccess ==
    \* a returned Teams is complete
    /\ ret.kind = "Ok" => pc = "done" /\ rest = << >> /\ Len(teams_vec) = NumTeams
    /\ pc = "done" => ret.kind = "Ok"
    \* a failed validate stops create at once, with validate's error
    /\ ~ConfigValid =>
          /\ shuffle_calls = 0 /\ teams_vec = << >> /\ team_idx = 0
          /\ pc \in {"validate", "err"}
          /\ pc = "err" => ret = validate(setting) /\ ret.kind # "Ok"
    \* no error return after a Team was constructed
    /\ pc = "err" => teams_vec = << >>
    /\ teams_vec # << >> => ret.kind \in {"Pending", "Ok"}

\* validate failed on a config that has leader candidates, and create
\* returned its error
C6_Witness ==
    /\ pc = "err"
    /\ ret.kind = "LeadersLack"
    /\ ret.available >= 2
    /\ shuffle_strategy = "RandomShuffle"
    /\ setting.flat = "SomeTrue"

\* what C7 says of every state
C7_ProjectionsNow ==
    LET lc == leader_candidates_of(setting)
        na == normal_attendees_of(setting)
        ap == all_people(setting)
    IN
    /\ ap = [i \in 1..NumAttendees |-> i]
    /\ setting.flat = "SomeTrue" => lc = ap /\ na = << >>
    /\ setting.flat # "SomeTrue" =>
          /\ InInputOrder(lc)
          /\ Range(lc) = { i \in 1..NumAttendees : setting.attendees[i].leader = "SomeTrue" }
          /\ InInputOrder(na)
          /\ Range(na) = { i \in 1..NumAttendees :
                              setting.attendees[i].leader \in {"SomeFalse", "None"} }
    /\ Len(lc) + Len(na) = NumAttendees
    /\ Range(lc) \cap Range(na) = {}
    /\ (shuffle_strategy = "NoShuffle" /\ pc = "shuffle_rest") =>
          rest = SubSeq(lc, 1, Len(lc) - NumTeams) \o na

(* C7: with flat true, leader_candidates() is all_people() (every attendee, *)
(* input order) and normal_attendees() is empty; otherwise                  *)
(* leader_candidates() is the input-order subsequence of the attendees      *)
(* flagged Some(true), normal_attendees() that of the others (Some(false)   *)
(* or None), and together they hold each attendee once.  create uses them   *)
(* as such, and no step changes the config.                                 *)
C7_Projections == [](C7_ProjectionsNow) /\ [][setting' = setting]_vars

\* flat unset, all three flag values present, both pools in use
C7_Witness ==
    /\ pc = "shuffle_rest"
    /\ shuffle_strategy = "NoShuffle"
    /\ setting.flat = "None"
    /\ \E i, j, k \in 1..NumAttendees :
          /\ i < j /\ j < k
          /\ setting.attendees[i].leader = "None"
          /\ setting.attendees[j].leader = "SomeTrue"
          /\ setting.attendees[k].leader = "SomeFalse"
    /\ Len(rest) >= 3

(* C8: the team at index i (0-based, creation order) of a returned Teams    *)
(* has floor((n-k)/k) members, plus one if i < (n-k) mod k: the extra       *)
(* members go to the lowest-indexed teams; and a pass of the round-robin    *)
(* loop assigns nothing once the pool is empty.                             *)
C8_MemberCounts ==
    /\ Returned =>
          \A t \in 1..Len(teams_vec) :
              MemberCount(t) =
                  ((NumAttendees - NumTeams) \div NumTeams)
                  + (IF t - 1 < (NumAttendees - NumTeams) % NumTeams THEN 1 ELSE 0)
    \* the last pass stops at the team after the one that got the last attendee
    /\ (Returned /\ NumAttendees > NumTeams) =>
          team_idx = ((NumAttendees - NumTeams - 1) % NumTeams) + 2
    /\ (pc = "for" /\ rest = << >>) => team_idx > 1
    /\ pc \in {"while", "for"} =>
          \* teams before the loop position are one pass ahead of the others
          \A t, u \in 1..Len(teams_vec) :
              t < u => MemberCount(t) - MemberCount(u) \in {0, 1}

\* the test's config: 5 attendees, 3 leader candidates, 2 teams, shuffled
C8_Witness ==
    /\ Returned
    /\ shuffle_strategy = "RandomShuffle"
    /\ NumAttendees = 5 /\ CandidateCount = 3 /\ NumTeams = 2
    /\ MemberCount(1) = 2 /\ MemberCount(2) = 1

\* what C9 says of every state
C9_Now ==
    \* the state in which the outer loop would spin
    /\ ~(pc \in {"while", "for"} /\ rest # << >> /\ teams_vec = << >>)
    \* an invalid config enters no loop
    /\ ~ConfigValid =>
          pc \in {"validate", "err"} /\ teams_vec = << >> /\ team_idx = 0
    \* the leader loop pops num_of_teams times at most
    /\ Len(teams_vec) <= NumTeams
    /\ pc = "create_by_leader_candidates" =>
          Len(teams_vec) + Len(leader_candidates) = CandidateCount

\* what C9 says of every step
C9_Step ==
    /\ (pc = "create_by_leader_candidates" /\ pc' = pc) =>
          Len(teams_vec') = Len(teams_vec) + 1
    /\ (pc = "while" /\ pc' = "for") => rest # << >> /\ teams_vec # << >>
    /\ (pc = "for" /\ pc' = "for") =>
          Len(rest') = Len(rest) - 1 /\ team_idx' = team_idx + 1
    \* a pass ends only after it has popped at least one attendee
    /\ (pc = "for" /\ pc' = "while") => team_idx > 1

\* an upper bound on the steps create still has to make: validate, the first
\* shuffle, one step per team still to create, the append, the second
\* shuffle, and three steps at most per attendee left in the pool
Rank ==
    CASE pc = "validate" -> 3 * NumAttendees + 5 + NumTeams
      [] pc = "shuffle_leaders" -> 3 * NumAttendees + 4 + NumTeams
      [] pc = "create_by_leader_candidates" ->
            3 * NumAttendees + 3 + (NumTeams - Len(teams_vec))
      [] pc = "shuffle_rest" -> 3 * Len(rest) + 2
      [] pc = "while" -> 3 * Len(rest) + 1
      [] pc = "for" -> 3 * Len(rest) + (IF team_idx = 1 THEN 0 ELSE 2)
      [] OTHER -> 0

\* create has returned
Terminated == pc \in {"done", "err"}

(* C9: create terminates for every config: an invalid config returns an     *)
(* error without entering a loop, the leader loop ends after num_of_teams   *)
(* pops, every pass of the outer loop shrinks the pool, and the state 'pool *)
(* non-empty and team list empty' is never reached.  Termination is stated  *)
(* by a variant: until create has returned a step is always possible, and   *)
(* every step lowers Rank, a natural number.                                *)
C9_Terminates ==
    /\ [](C9_Now)
    /\ [](Rank \in Nat /\ (~Terminated => ENABLED Next))
    /\ [][C9_Step /\ Rank' < Rank]_vars

(* The same termination as a liveness property, for FairSpec: every run     *)
(* reaches a return of create.                                              *)
EventuallyReturns == <>Terminated

\* returned after the outer loop made at least three passes
C9_Witness ==
    /\ Returned
    /\ NumTeams >= 1
    /\ NumAttendees - NumTeams > 2 * NumTeams
    /\ CandidateCount < NumAttendees

(* C10: create never panics on an unwrap: the leader loop never pops an     *)
(* empty pool, and validate's u8::try_from never fails, also with more than *)
(* 255 leader candidates.                                                   *)
C10_NoPanic ==
    /\ pc # "panic"
    /\ ret.kind # "Panic"
    /\ validate(setting).kind # "Panic"
    \* the shuffle kept the pool's length, and validate made it large enough
    /\ pc = "create_by_leader_candidates" =>
          /\ Len(leader_candidates) = CandidateCount - Len(teams_vec)
          /\ CandidateCount >= NumTeams
    /\ (pc = "create_by_leader_candidates"
          /\ needs_more_teams(teams_vec, setting.num_of_teams)) =>
          leader_candidates # << >>

\* more than 255 leader candidates, 255 teams, returned
C10_Witness ==
    /\ Returned
    /\ CandidateCount > U8Max
    /\ NumTeams = U8Max

=============================================================================
